---- MODULE Spec2Model ----
(***************************************************************************)
(* Model of src/src/create_video.py: make_video(image_path, audio_path,    *)
(* output_path, fps) and the command line entry point.                     *)
(*                                                                         *)
(* Each invocation of make_video is a process with its own locals          *)
(* (audio_clip, image_clip, final_clip, duration, temp_audiofile_path).    *)
(* Two invocations run interleaved, one step per statement that calls      *)
(* into the operating system or the media library.  The only state they    *)
(* share is the file system, modelled by the set of paths written so far.  *)
(*                                                                         *)
(* The media library (moviepy) is the environment.  Every call into it     *)
(* that the try block makes either returns or raises; close() returns.     *)
(* ImageClip.with_audio is an out-of-place operation of the library: it    *)
(* returns a copy of the clip, a new object.  Clip objects define neither  *)
(* __bool__ nor __len__, so `if clip:` is the test `clip is not None`.     *)
(*                                                                         *)
(* Paths are sequences of characters; a character is a one-letter string,  *)
(* and the fixed temporary file name is kept as a single token that is     *)
(* not a separator.  None is the empty tuple; an optional value x is <<x>>.*)
(***************************************************************************)
EXTENDS Integers, Sequences, FiniteSets, TLC

\* ------------------------------------------------------------------ bounds
MaxPathLen == 3
MaxDuration == 2

\* --------------------------------------------------------------- constants
Invocs == {1, 2}
None == <<>>
Sep == "/"
Chars == {Sep, "d", "f"}
Paths == UNION {[1..n -> Chars] : n \in 0..MaxPathLen}
OutputPaths == {<<"f">>, <<"d">>, <<"d", Sep, "f">>}
TempName == <<"temp_processing_audio.mp4">>
image_path == "image_path"
audio_path == "audio_path"
Durations == {None} \cup {<<d>> : d \in (0 - 1)..MaxDuration}

VARIABLES pc, output_path, audio_clip, image_clip, final_clip, duration,
          clip_duration, temp_audiofile_path, exc, log, written, exit_status

vars == <<pc, output_path, audio_clip, image_clip, final_clip, duration,
          clip_duration, temp_audiofile_path, exc, log, written, exit_status>>

\* ----------------------------------------------------------- os.path model
RECURSIVE RStripSep(_)
RStripSep(s) ==
    IF s # <<>> /\ s[Len(s)] = Sep THEN RStripSep(SubSeq(s, 1, Len(s) - 1)) ELSE s

RFindSep(p) ==
    LET idx == {i \in 1..Len(p) : p[i] = Sep}
    IN IF idx = {} THEN 0 ELSE CHOOSE i \in idx : \A j \in idx : j <= i

AllSep(s) == \A i \in 1..Len(s) : s[i] = Sep

Dirname(p) ==
    LET head == SubSeq(p, 1, RFindSep(p))
    IN IF head # <<>> /\ ~AllSep(head) THEN RStripSep(head) ELSE head

JoinConcat(a, b) == a \o b

Join(a, b) ==
    IF b # <<>> /\ b[1] = Sep THEN b
    ELSE IF a = <<>> \/ a[Len(a)] = Sep THEN a \o b
    ELSE a \o <<Sep>> \o b

TempAudiofilePathCwd(out) == TempName

TempAudiofilePath(out) == Join(Dirname(out), TempName)

\* ------------------------------------------------------------ library model
Handle(p, kind) == <<p, kind>>

WithAudioInPlace(p, clip) == clip

WithAudio(p, clip) == Handle(p, "final")

ImageClipDurationDefault(d) == None

ImageClipDuration(d) == d

DurationInvalidNegativeOnly(d) == d = None \/ d[1] < 0

DurationInvalid(d) == d = None \/ d[1] <= 0

LibraryError(op) == <<"LibraryError", op, "">>

Ev(ev, op, h) == [ev |-> ev, op |-> op, h |-> h]

Append2(s, a, b) == Append(Append(s, a), b)

\* --------------------------------------------------- reading the event log
Events(p, ev) == {i \in DOMAIN log[p] : log[p][i].ev = ev}

Calls(p, op) == {i \in Events(p, "call") : log[p][i].op = op}

LibOps == {"AudioFileClip", "ImageClip", "with_audio", "write_videofile"}

Opened(p) == {log[p][i].h : i \in {j \in Events(p, "return") : log[p][j].h # None}}

CloseCount(p, h) == Cardinality({i \in Events(p, "close") : log[p][i].h = h})

IsClose(e) == e.ev = "close"

Closed(p) == [i \in DOMAIN SelectSeq(log[p], IsClose) |-> SelectSeq(log[p], IsClose)[i].h]

Failures(p) == Events(p, "raise") \cup Events(p, "missing")

Printed(p, what) == {i \in Events(p, "print") : log[p][i].op = what}

Writes(p) == {w[2] : w \in {x \in written : x[1] = p}}

IsSome(x) == x # None

Acquired(p) == SelectSeq(<<audio_clip[p], image_clip[p], final_clip[p]>>, IsSome)

Returned(p) == pc[p] \in {"main", "exit"}

\* ------------------------------------------------------------------- steps
Raise(p, e) ==
    /\ exc' = [exc EXCEPT ![p] = e]
    /\ pc' = [pc EXCEPT ![p] = "except"]

Init ==
    /\ pc = [p \in Invocs |-> "check_image"]
    /\ output_path \in [Invocs -> OutputPaths]
    /\ audio_clip = [p \in Invocs |-> None]
    /\ image_clip = [p \in Invocs |-> None]
    /\ final_clip = [p \in Invocs |-> None]
    /\ duration = [p \in Invocs |-> None]
    /\ clip_duration = [p \in Invocs |-> [k \in {"image", "final"} |-> None]]
    /\ temp_audiofile_path = [p \in Invocs |-> None]
    /\ exc = [p \in Invocs |-> None]
    /\ log = [p \in Invocs |-> <<>>]
    /\ written = {}
    /\ exit_status = [p \in Invocs |-> None]

CheckImage(p) ==
    /\ pc[p] = "check_image"
    /\ \E exists \in BOOLEAN :
        /\ log' = [log EXCEPT ![p] = Append(@, Ev(IF exists THEN "exists" ELSE "missing", image_path, None))]
        /\ IF exists
           THEN /\ pc' = [pc EXCEPT ![p] = "check_audio"]
                /\ UNCHANGED exc
           ELSE Raise(p, <<"FileNotFoundError", "Image file not found", image_path>>)
    /\ UNCHANGED <<output_path, audio_clip, image_clip, final_clip, duration,
                   clip_duration, temp_audiofile_path, written, exit_status>>

CheckAudioSkipped(p) ==
    /\ pc[p] = "check_audio"
    /\ \E exists \in BOOLEAN :
        log' = [log EXCEPT ![p] = Append(@, Ev(IF exists THEN "exists" ELSE "missing", audio_path, None))]
    /\ pc' = [pc EXCEPT ![p] = "load_audio"]
    /\ UNCHANGED <<output_path, audio_clip, image_clip, final_clip, duration,
                   clip_duration, temp_audiofile_path, exc, written, exit_status>>

CheckAudio(p) ==
    /\ pc[p] = "check_audio"
    /\ \E exists \in BOOLEAN :
        /\ log' = [log EXCEPT ![p] = Append(@, Ev(IF exists THEN "exists" ELSE "missing", audio_path, None))]
        /\ IF exists
           THEN /\ pc' = [pc EXCEPT ![p] = "load_audio"]
                /\ UNCHANGED exc
           ELSE Raise(p, <<"FileNotFoundError", "Audio file not found", audio_path>>)
    /\ UNCHANGED <<output_path, audio_clip, image_clip, final_clip, duration,
                   clip_duration, temp_audiofile_path, written, exit_status>>

LoadAudio(p) ==
    /\ pc[p] = "load_audio"
    /\ \/ /\ log' = [log EXCEPT ![p] = Append2(@, Ev("call", "AudioFileClip", None),
                                                   Ev("raise", "AudioFileClip", None))]
          /\ Raise(p, LibraryError("AudioFileClip"))
          /\ UNCHANGED <<audio_clip, duration>>
       \/ \E d \in Durations :
          /\ audio_clip' = [audio_clip EXCEPT ![p] = Handle(p, "audio")]
          /\ duration' = [duration EXCEPT ![p] = d]
          /\ log' = [log EXCEPT ![p] = Append2(@, Ev("call", "AudioFileClip", None),
                                                   Ev("return", "AudioFileClip", Handle(p, "audio")))]
          /\ pc' = [pc EXCEPT ![p] = "check_duration"]
          /\ UNCHANGED exc
    /\ UNCHANGED <<output_path, image_clip, final_clip, clip_duration,
                   temp_audiofile_path, written, exit_status>>

CheckDuration(p) ==
    /\ pc[p] = "check_duration"
    /\ IF DurationInvalid(duration[p])
       THEN /\ log' = [log EXCEPT ![p] = Append(@, Ev("raise", "ValueError", None))]
            /\ Raise(p, <<"ValueError", "Audio duration is invalid or zero", "">>)
       ELSE /\ pc' = [pc EXCEPT ![p] = "image_clip"]
            /\ UNCHANGED <<exc, log>>
    /\ UNCHANGED <<output_path, audio_clip, image_clip, final_clip, duration,
                   clip_duration, temp_audiofile_path, written, exit_status>>

MakeImageClip(p) ==
    /\ pc[p] = "image_clip"
    /\ \/ /\ log' = [log EXCEPT ![p] = Append2(@, Ev("call", "ImageClip", None),
                                                   Ev("raise", "ImageClip", None))]
          /\ Raise(p, LibraryError("ImageClip"))
          /\ UNCHANGED <<image_clip, clip_duration>>
       \/ /\ image_clip' = [image_clip EXCEPT ![p] = Handle(p, "image")]
          /\ clip_duration' = [clip_duration EXCEPT ![p]["image"] = ImageClipDuration(duration[p])]
          /\ log' = [log EXCEPT ![p] = Append2(@, Ev("call", "ImageClip", None),
                                                   Ev("return", "ImageClip", Handle(p, "image")))]
          /\ pc' = [pc EXCEPT ![p] = "with_audio"]
          /\ UNCHANGED exc
    /\ UNCHANGED <<output_path, audio_clip, final_clip, duration,
                   temp_audiofile_path, written, exit_status>>

CombineClips(p) ==
    /\ pc[p] = "with_audio"
    /\ \/ /\ log' = [log EXCEPT ![p] = Append2(@, Ev("call", "with_audio", image_clip[p]),
                                                   Ev("raise", "with_audio", None))]
          /\ Raise(p, LibraryError("with_audio"))
          /\ UNCHANGED <<final_clip, clip_duration>>
       \/ LET new == WithAudio(p, image_clip[p]) IN
          /\ final_clip' = [final_clip EXCEPT ![p] = new]
          /\ clip_duration' = [clip_duration EXCEPT ![p][new[2]] = clip_duration[p]["image"]]
          /\ log' = [log EXCEPT ![p] = Append2(@, Ev("call", "with_audio", image_clip[p]),
                                                   Ev("return", "with_audio", new))]
          /\ pc' = [pc EXCEPT ![p] = "temp_path"]
          /\ UNCHANGED exc
    /\ UNCHANGED <<output_path, audio_clip, image_clip, duration,
                   temp_audiofile_path, written, exit_status>>

ComputeTempPath(p) ==
    /\ pc[p] = "temp_path"
    /\ temp_audiofile_path' = [temp_audiofile_path EXCEPT ![p] = TempAudiofilePath(output_path[p])]
    /\ pc' = [pc EXCEPT ![p] = "write"]
    /\ UNCHANGED <<output_path, audio_clip, image_clip, final_clip, duration,
                   clip_duration, exc, log, written, exit_status>>

\* final_clip.write_videofile(...): the library first writes the clip's audio
\* to temp_audiofile, then encodes the video to output_path and removes the
\* temporary file.  It can raise before or after it has touched the disk.
WriteBegin(p) ==
    /\ pc[p] = "write"
    /\ \/ /\ log' = [log EXCEPT ![p] = Append2(@, Ev("call", "write_videofile", final_clip[p]),
                                                   Ev("raise", "write_videofile", None))]
          /\ Raise(p, LibraryError("write_videofile"))
          /\ UNCHANGED written
       \/ /\ log' = [log EXCEPT ![p] = Append(@, Ev("call", "write_videofile", final_clip[p]))]
          /\ written' = written \cup {<<p, temp_audiofile_path[p]>>}
          /\ pc' = [pc EXCEPT ![p] = "writing"]
          /\ UNCHANGED exc
    /\ UNCHANGED <<output_path, audio_clip, image_clip, final_clip, duration,
                   clip_duration, temp_audiofile_path, exit_status>>

WriteFailRetry(p) ==
    /\ pc[p] = "writing"
    /\ log' = [log EXCEPT ![p] = Append(@, Ev("raise", "write_videofile", None))]
    /\ IF Cardinality(Calls(p, "write_videofile")) < 2
       THEN /\ pc' = [pc EXCEPT ![p] = "write"]
            /\ UNCHANGED exc
       ELSE Raise(p, LibraryError("write_videofile"))
    /\ UNCHANGED <<output_path, audio_clip, image_clip, final_clip, duration,
                   clip_duration, temp_audiofile_path, written, exit_status>>

WriteFail(p) ==
    /\ pc[p] = "writing"
    /\ log' = [log EXCEPT ![p] = Append(@, Ev("raise", "write_videofile", None))]
    /\ \E partial \in BOOLEAN :
        written' = IF partial THEN written \cup {<<p, output_path[p]>>} ELSE written
    /\ Raise(p, LibraryError("write_videofile"))
    /\ UNCHANGED <<output_path, audio_clip, image_clip, final_clip, duration,
                   clip_duration, temp_audiofile_path, exit_status>>

WriteEnd(p) ==
    /\ pc[p] = "writing"
    /\ written' = written \cup {<<p, output_path[p]>>}
    /\ log' = [log EXCEPT ![p] = Append2(@, Ev("return", "write_videofile", None),
                                             Ev("print", "success", None))]
    /\ pc' = [pc EXCEPT ![p] = "close_audio"]
    /\ UNCHANGED <<output_path, audio_clip, image_clip, final_clip, duration,
                   clip_duration, temp_audiofile_path, exc, exit_status>>

ExceptSwallow(p) ==
    /\ pc[p] = "except"
    /\ log' = [log EXCEPT ![p] = Append2(@, Ev("print", "error", None),
                                             Ev("print", "traceback", None))]
    /\ exc' = [exc EXCEPT ![p] = None]
    /\ pc' = [pc EXCEPT ![p] = "close_audio"]
    /\ UNCHANGED <<output_path, audio_clip, image_clip, final_clip, duration,
                   clip_duration, temp_audiofile_path, written, exit_status>>

\* except Exception as e: print, traceback.print_exc(), raise.  The raise
\* leaves exc pending while the finally block runs.
Except(p) ==
    /\ pc[p] = "except"
    /\ log' = [log EXCEPT ![p] = Append2(@, Ev("print", "error", None),
                                             Ev("print", "traceback", None))]
    /\ pc' = [pc EXCEPT ![p] = "close_audio"]
    /\ UNCHANGED <<output_path, audio_clip, image_clip, final_clip, duration,
                   clip_duration, temp_audiofile_path, exc, written, exit_status>>

CloseUnchecked(p, slot, next) ==
    /\ log' = [log EXCEPT ![p] = Append(@, Ev("close", "close", slot))]
    /\ pc' = [pc EXCEPT ![p] = next]
    /\ UNCHANGED <<output_path, audio_clip, image_clip, final_clip, duration,
                   clip_duration, temp_audiofile_path, exc, written, exit_status>>

Close(p, slot, next) ==
    /\ log' = [log EXCEPT ![p] = IF slot # None THEN Append(@, Ev("close", "close", slot)) ELSE @]
    /\ pc' = [pc EXCEPT ![p] = next]
    /\ UNCHANGED <<output_path, audio_clip, image_clip, final_clip, duration,
                   clip_duration, temp_audiofile_path, exc, written, exit_status>>

CloseAudio(p) ==
    /\ pc[p] = "close_audio"
    /\ Close(p, audio_clip[p], "close_image")

CloseImageSkipped(p) ==
    /\ pc[p] = "close_image"
    /\ pc' = [pc EXCEPT ![p] = "close_final"]
    /\ UNCHANGED <<output_path, audio_clip, image_clip, final_clip, duration,
                   clip_duration, temp_audiofile_path, exc, log, written, exit_status>>

CloseImage(p) ==
    /\ pc[p] = "close_image"
    /\ Close(p, image_clip[p], "close_final")

CloseFinal(p) ==
    /\ pc[p] = "close_final"
    /\ Close(p, final_clip[p], "main")

\* __main__: make_video has returned or its exception has propagated; an
\* uncaught exception ends the interpreter with status 1.
MainExit(p) ==
    /\ pc[p] = "main"
    /\ exit_status' = [exit_status EXCEPT ![p] = IF exc[p] = None THEN <<0>> ELSE <<1>>]
    /\ pc' = [pc EXCEPT ![p] = "exit"]
    /\ UNCHANGED <<output_path, audio_clip, image_clip, final_clip, duration,
                   clip_duration, temp_audiofile_path, exc, log, written>>

Step(p) ==
    \/ CheckImage(p)
    \/ CheckAudio(p)
    \/ LoadAudio(p)
    \/ CheckDuration(p)
    \/ MakeImageClip(p)
    \/ CombineClips(p)
    \/ ComputeTempPath(p)
    \/ WriteBegin(p)
    \/ WriteFail(p)
    \/ WriteEnd(p)
    \/ Except(p)
    \/ CloseAudio(p)
    \/ CloseImage(p)
    \/ CloseFinal(p)
    \/ MainExit(p)

Next == \E p \in Invocs : Step(p)

Spec == Init /\ [][Next]_vars

\* ------------------------------------------------- temporary path, all paths
\* The state of an invocation that has built its combined clip and is about
\* to run line 46, for every output path up to MaxPathLen characters.
LogBeforeTempPath(p) ==
    << Ev("exists", image_path, None), Ev("exists", audio_path, None),
       Ev("call", "AudioFileClip", None), Ev("return", "AudioFileClip", Handle(p, "audio")),
       Ev("call", "ImageClip", None), Ev("return", "ImageClip", Handle(p, "image")),
       Ev("call", "with_audio", Handle(p, "image")),
       Ev("return", "with_audio", WithAudio(p, Handle(p, "image"))) >>

PathInit ==
    /\ pc = [p \in Invocs |-> "temp_path"]
    /\ output_path \in [Invocs -> Paths]
    /\ audio_clip = [p \in Invocs |-> Handle(p, "audio")]
    /\ image_clip = [p \in Invocs |-> Handle(p, "image")]
    /\ final_clip = [p \in Invocs |-> WithAudio(p, Handle(p, "image"))]
    /\ duration = [p \in Invocs |-> <<1>>]
    /\ clip_duration = [p \in Invocs |-> [k \in {"image", "final"} |-> <<1>>]]
    /\ temp_audiofile_path = [p \in Invocs |-> None]
    /\ exc = [p \in Invocs |-> None]
    /\ log = [p \in Invocs |-> LogBeforeTempPath(p)]
    /\ written = {}
    /\ exit_status = [p \in Invocs |-> None]

PathNext == \E p \in Invocs : ComputeTempPath(p) \/ WriteBegin(p)

PathSpec == PathInit /\ [][PathNext]_vars

\* ================================================================== claims

\* C1: when os.path.exists reports the image path or the audio path missing,
\* make_video raises FileNotFoundError naming that path, no media library
\* call (open, image clip, combine, write, close) is made in that execution,
\* nothing is written, and the process ends with a failure status.
C1_MissingInputFailsBeforeLibrary ==
    \A p \in Invocs : \A i \in Events(p, "missing") :
        /\ exc[p] # None
        /\ exc[p][1] = "FileNotFoundError"
        /\ exc[p][3] = log[p][i].op
        /\ Events(p, "call") = {}
        /\ Events(p, "close") = {}
        /\ Writes(p) = {}
        /\ exit_status[p] # <<0>>

C1_Witness ==
    \E p \in Invocs :
        /\ pc[p] = "exit"
        /\ \E i \in Events(p, "missing") : log[p][i].op = audio_path

\* C2: once make_video has returned or propagated its error, every handle a
\* library call returned in this execution has been closed, whatever the
\* point of failure.
C2_OpenedHandlesReleased ==
    \A p \in Invocs :
        Returned(p) => \A h \in Opened(p) : CloseCount(p, h) >= 1

C2_Witness ==
    \E p \in Invocs :
        /\ Returned(p)
        /\ exc[p] = LibraryError("write_videofile")
        /\ Cardinality(Opened(p)) = 3

C4_InvalidDurationStopsBeforeClips ==
    \A p \in Invocs :
        (/\ audio_clip[p] # None
         /\ pc[p] # "check_duration"
         /\ (duration[p] = None \/ duration[p][1] <= 0))
        => /\ exc[p] # None
           /\ exc[p][1] = "ValueError"
           /\ Calls(p, "ImageClip") = {}
           /\ Calls(p, "with_audio") = {}
           /\ Calls(p, "write_videofile") = {}
           /\ image_clip[p] = None /\ final_clip[p] = None
           /\ Writes(p) = {}
           /\ Returned(p) => CloseCount(p, audio_clip[p]) = 1

C4_Witness ==
    \E p \in Invocs :
        /\ Returned(p)
        /\ audio_clip[p] # None
        /\ duration[p] = <<0>>
        /\ exc[p] # None

\* C5: every failure (missing input, invalid audio, library error) is
\* reported with the message and the traceback and stays raised: the report
\* precedes every close, all acquired handles are closed before control is
\* back in the caller, the success message is never printed, and the process
\* never ends with status 0.
C5_FailureReportedThenCleanedThenRaised ==
    \A p \in Invocs :
        Failures(p) # {} =>
            /\ exc[p] # None
            /\ Printed(p, "success") = {}
            /\ exit_status[p] # <<0>>
            /\ pc[p] # "except" =>
                   /\ \E i \in Printed(p, "error") : \E j \in Printed(p, "traceback") :
                          /\ \A f \in Failures(p) : f < i
                          /\ i < j
                          /\ \A c \in Events(p, "close") : j < c
            /\ pc[p] = "except" => Events(p, "close") = {} /\ Events(p, "print") = {}
            /\ Returned(p) => Closed(p) = Acquired(p)
            /\ pc[p] = "exit" => exit_status[p] = <<1>>

C5_Witness ==
    \E p \in Invocs :
        /\ pc[p] = "exit"
        /\ exc[p] = LibraryError("ImageClip")
        /\ Len(Closed(p)) = 1
        /\ exit_status[p] = <<1>>

\* C6: whenever the image clip or the combined clip exists, its duration is
\* the duration read from the audio handle and is strictly positive; the
\* clip handed to the encoder has the audio's duration.
C6_ClipDurationIsAudioDuration ==
    \A p \in Invocs :
        /\ image_clip[p] # None =>
               /\ clip_duration[p][image_clip[p][2]] = duration[p]
               /\ duration[p] # None /\ duration[p][1] > 0
        /\ final_clip[p] # None =>
               /\ clip_duration[p][final_clip[p][2]] = duration[p]
               /\ duration[p] # None /\ duration[p][1] > 0
        /\ \A i \in Calls(p, "write_videofile") :
               /\ log[p][i].h = final_clip[p]
               /\ clip_duration[p][log[p][i].h[2]] = duration[p]

C6_Witness ==
    \E p \in Invocs :
        /\ Calls(p, "write_videofile") # {}
        /\ duration[p] = <<MaxDuration>>
        /\ clip_duration[p]["final"] = <<MaxDuration>>

\* C7: nothing is retried and nothing follows a failure: each library
\* operation is called at most once per invocation, after a failure the only
\* further events are the error report and the closes, and success (the
\* success message, exit status 0) occurs only after the single
\* write_videofile call returned and the output file was written.
C7_NoRetryAllOrNothing ==
    \A p \in Invocs :
        /\ \A op \in LibOps : Cardinality(Calls(p, op)) <= 1
        /\ \A f \in Failures(p) : \A j \in DOMAIN log[p] :
               j > f => /\ log[p][j].ev \in {"print", "close"}
                        /\ log[p][j].op # "success"
        /\ \A s \in Printed(p, "success") :
               /\ \E r \in Events(p, "return") : log[p][r].op = "write_videofile" /\ r < s
               /\ output_path[p] \in Writes(p)
               /\ exc[p] = None
        /\ exit_status[p] = <<0>> => Printed(p, "success") # {}

C7_Witness ==
    \E p \in Invocs :
        /\ pc[p] = "exit"
        /\ exc[p] = LibraryError("write_videofile")
        /\ Cardinality(Calls(p, "write_videofile")) = 1
        /\ temp_audiofile_path[p] \in Writes(p)

\* C8: the finally block closes exactly the handle slots that were filled,
\* in the order audio, image clip, combined clip: at every moment the closes
\* issued so far are a prefix of the filled slots in that order, every closed
\* handle was returned by a library call of this execution, and an empty
\* slot is never closed.
C8_CleanupOnlyAcquiredInOrder ==
    \A p \in Invocs :
        /\ Len(Closed(p)) <= Len(Acquired(p))
        /\ Closed(p) = SubSeq(Acquired(p), 1, Len(Closed(p)))
        /\ \A i \in DOMAIN Closed(p) : Closed(p)[i] # None /\ Closed(p)[i] \in Opened(p)
        /\ Returned(p) => Closed(p) = Acquired(p)

C8_Witness ==
    \E p \in Invocs :
        /\ Returned(p)
        /\ exc[p] = LibraryError("with_audio")
        /\ Closed(p) = <<Handle(p, "audio"), Handle(p, "image")>>

\* C9 as stated: two invocations with distinct output paths that are inside
\* write_videofile at the same time never use the same temporary audio file.
C9_DistinctOutputsShareNothing ==
    \A p, q \in Invocs :
        (/\ p # q
         /\ output_path[p] # output_path[q]
         /\ pc[p] = "writing" /\ pc[q] = "writing")
        => temp_audiofile_path[p] # temp_audiofile_path[q]

\* C9 amended: the clip handles are private to an invocation, but the
\* temporary audio file is not: two invocations pass the same temporary path
\* to the encoder exactly when os.path.dirname of their output paths is the
\* same string, whether or not the output paths differ.
C9_TempPathSharedIffSameDirname ==
    \A p, q \in Invocs :
        /\ \A i \in DOMAIN log[p] : log[p][i].h # None => log[p][i].h[1] = p
        /\ (p # q /\ temp_audiofile_path[p] # None /\ temp_audiofile_path[q] # None)
            => ((temp_audiofile_path[p] = temp_audiofile_path[q])
                    <=> (Dirname(output_path[p]) = Dirname(output_path[q])))

C9_Witness ==
    \E p, q \in Invocs :
        /\ p # q
        /\ output_path[p] # output_path[q]
        /\ pc[p] = "writing" /\ pc[q] = "writing"
        /\ temp_audiofile_path[p] = temp_audiofile_path[q]
        /\ temp_audiofile_path[p] \in Writes(p) \cap Writes(q)

\* C10: the temporary audio path computed from any output path, with or
\* without a directory component, has the same directory as the output path,
\* so every path an invocation writes lies in its output path's directory.
C10_TempPathInOutputDirectory ==
    \A p \in Invocs :
        /\ temp_audiofile_path[p] # None =>
               /\ Dirname(temp_audiofile_path[p]) = Dirname(output_path[p])
               /\ temp_audiofile_path[p][Len(temp_audiofile_path[p])] = TempName[1]
        /\ \A w \in Writes(p) : Dirname(w) = Dirname(output_path[p])

C10_Witness ==
    \E p, q \in Invocs :
        /\ RFindSep(output_path[p]) = 0
        /\ temp_audiofile_path[p] \in Writes(p)
        /\ Len(output_path[q]) = MaxPathLen
        /\ Dirname(output_path[q]) # <<>>
        /\ ~AllSep(Dirname(output_path[q]))
        /\ temp_audiofile_path[q] \in Writes(q)
====
